---- MODULE Spec2Model ----
(***************************************************************************)
(* Write-behind persistence of the cache database:                         *)
(* nautilus_core/infrastructure/src/sql/cache_database.rs.                 *)
(*                                                                         *)
(* Producers enqueue DatabaseQuery commands on a bounded tokio mpsc        *)
(* channel (add / add_currency / add_instrument); one spawned task,        *)
(* handle_message, receives them into a VecDeque buffer and drain_buffer   *)
(* writes them to the store, one storage operation per command.  The      *)
(* reads of the handle query the store directly.                           *)
(*                                                                         *)
(* Also QuoteTick::extract_price of nautilus_core/model/src/data/quote.rs, *)
(* a pure function, under its own specification SpecQuote.                 *)
(***************************************************************************)
EXTENDS Integers, Sequences, FiniteSets

(* ------------------------------ bounds --------------------------------- *)

\* Channel capacity used by the model; the code passes 1000 to channel().
QueueCap == 2

\* Total number of enqueue calls made by all producers together.
MaxCmds == 3

\* Largest flush interval (in recv_interval units) of the tunable-interval
\* specification; the code's own interval is get_buffer_interval.
MaxInterval == 1

\* The width in bits the i64 of a Price's raw is scaled down to.
RawBits == 5

\* types::fixed::FIXED_PRECISION, the greatest precision of a Price.
FIXED_PRECISION == 9

(* ----------------------------- constants ------------------------------- *)

\* The callers that share the handle (each holds a reference to it).
Procs == {"p1", "p2"}

\* InstrumentAny's variants, in the order of drain_buffer's match.
Variants ==
    {"CryptoFuture", "CryptoPerpetual", "CurrencyPair", "Equity",
     "FuturesContract", "FuturesSpread", "OptionsContract", "OptionsSpread"}

\* Table written by DatabaseQueries::add and add_currency.
GeneralTable == "general"
CurrencyTable == "currency"

\* drain_buffer's match on the instrument: the kind string it passes to
\* DatabaseQueries::add_instrument, one per variant.
instrument_kind(variant) ==
    CASE variant = "CryptoFuture"    -> "CRYPTO_FUTURE"
      [] variant = "CryptoPerpetual" -> "CRYPTO_PERPETUAL"
      [] variant = "CurrencyPair"    -> "CURRENCY_PAIR"
      [] variant = "Equity"          -> "EQUITY"
      [] variant = "FuturesContract" -> "FUTURES_CONTRACT"
      [] variant = "FuturesSpread"   -> "FUTURES_SPREAD"
      [] variant = "OptionsContract" -> "OPTIONS_CONTRACT"
      [] variant = "OptionsSpread"   -> "OPTIONS_SPREAD"

Tables == {GeneralTable, CurrencyTable} \cup {instrument_kind(v) : v \in Variants}

\* Mutant of get_buffer_interval: the interval is positive.
get_buffer_interval_positive == MaxInterval

\* get_buffer_interval(): Duration::from_millis(0).
get_buffer_interval == 0

\* recv_interval: Duration::from_millis(1), the pause on an empty queue.
recv_interval == 1

(* The payloads a run's producers draw from.  kind is the DatabaseQuery      *)
(* variant; variant is the InstrumentAny variant ("-" for the others); key *)
(* is the natural key (generic key, currency code, instrument id) and      *)
(* value stands for the rest of the payload.                               *)
Payload(kind, variant, key, value) ==
    [kind |-> kind, variant |-> variant, key |-> key, value |-> value]

\* Two generic entries for one key.
GenericPayloads == {Payload("Add", "-", "A", v) : v \in {"v1", "v2"}}

\* Two currencies with one code.
CurrencyPayloads == {Payload("AddCurrency", "-", "USD", v) : v \in {"v1", "v2"}}

\* Two instruments of one variant with one id.
InstrumentPayloads ==
    {Payload("AddInstrument", "CurrencyPair", "I1", v) : v \in {"v1", "v2"}}

\* One command of each kind.
MixedPayloads ==
    {Payload("Add", "-", "A", "v1"), Payload("AddCurrency", "-", "USD", "v1"),
     Payload("AddInstrument", "CurrencyPair", "I1", "v1")}

PayloadFamilies == {GenericPayloads, CurrencyPayloads, InstrumentPayloads, MixedPayloads}

NoCmd == [kind |-> "-", variant |-> "-", key |-> "-", value |-> "-", src |-> "-", n |-> 0]

\* No send is suspended.
NoPending == [cmd |-> NoCmd, at |-> 0]

\* No read has just returned.
NoRead == [op |-> "-", key |-> "-", result |-> {}]

\* No tick, and no price extracted.
NoTick ==
    [bid |-> [raw |-> 0, precision |-> 0], ask |-> [raw |-> 0, precision |-> 0],
     set |-> FALSE]
NoPrice == [raw |-> 0, precision |-> 0, outcome |-> "none"]

VARIABLES
    payloads,        \* the payloads the producers of this run draw from
    connectResult,   \* what connect() gave its caller: "none", "Ok", "panic"
    pc,              \* per producer: "idle", "suspended" (in send().await), "dropped"
    pending,         \* per producer: its suspended send's command, and nrecv then
    sendResult,      \* per producer: result of its last completed enqueue
    issued,          \* per producer: number of enqueue calls it has made
    queue,           \* the channel's content, oldest first
    wpc,             \* the worker task's position in handle_message
    worker_error,    \* why the worker task panicked: "none", "connect_pg", "write"
    buffer,          \* handle_message's buffer
    buffer_interval, \* handle_message's buffer_interval
    elapsed,         \* last_drain.elapsed(), saturated at MaxElapsed
    storage,         \* the tables of the store: table name -> set of rows
    admitted,        \* history: the commands whose send returned Ok, in queue order
    applied,         \* history: the commands whose storage operation succeeded
    nrecv,           \* history: how many commands try_recv has delivered
    lastRead,        \* the read that has just returned, NoRead after any other step
    tick,            \* the QuoteTick extract_price is called on
    price_type,      \* the PriceType it is called with
    extracted        \* what extract_price gave: NoPrice before the call

vars ==
    <<payloads, connectResult, pc, pending, sendResult, issued, queue, wpc, worker_error,
      buffer, buffer_interval, elapsed, storage, admitted, applied, nrecv, lastRead,
      tick, price_type, extracted>>

producerVars == <<pc, pending, sendResult, issued>>
workerVars == <<wpc, worker_error, buffer, elapsed>>
quoteVars == <<tick, price_type, extracted>>

(* ----------------------------- helpers --------------------------------- *)

Min(a, b) == IF a <= b THEN a ELSE b

RECURSIVE SumOver(_, _)
SumOver(f, S) ==
    IF S = {} THEN 0
    ELSE LET x == CHOOSE y \in S : TRUE IN f[x] + SumOver(f, S \ {x})

IsPrefix(s, t) == Len(s) <= Len(t) /\ \A i \in 1..Len(s) : s[i] = t[i]

\* last_drain.elapsed() is kept up to this value: beyond it the comparison
\* with the interval has the same outcome.
MaxElapsed == IF buffer_interval >= recv_interval THEN buffer_interval ELSE recv_interval

\* The worker task has ended: handle_message has returned or panicked.
WorkerTerminated == wpc \in {"stopped", "panicked"}

\* Mutant of RxClosed: send() does not notice that rx is gone.
RxClosed_never == FALSE

\* tx.send() fails when rx is gone; rx is a local of the worker task and is
\* dropped when the task ends.
RxClosed == WorkerTerminated

\* A producer that has not dropped its reference to the handle keeps tx alive.
LiveProcs == {p \in Procs : connectResult = "Ok" /\ pc[p] # "dropped"}

(* --------------------------- the store --------------------------------- *)

\* An upsert: the row with this key is inserted, replacing the row that
\* shares the key.
Upsert(rows, key, value) ==
    {r \in rows : r.key # key} \cup {[key |-> key, value |-> value]}

\* DatabaseQueries::add(pool, key, value)
DatabaseQueries_add(st, key, value) ==
    [st EXCEPT ![GeneralTable] = Upsert(@, key, value)]

\* DatabaseQueries::add_currency(pool, currency)
DatabaseQueries_add_currency(st, code, value) ==
    [st EXCEPT ![CurrencyTable] = Upsert(@, code, value)]

\* DatabaseQueries::add_instrument(pool, kind, instrument)
DatabaseQueries_add_instrument(st, kind, id, value) ==
    [st EXCEPT ![kind] = Upsert(@, id, value)]

\* Mutant of apply_cmd: the storage operation is built and never run.
apply_cmd_not_run(st, cmd) == st

\* Mutant of apply_cmd: the Add arm passes value and key in each other's
\* place.
apply_cmd_swapped(st, cmd) ==
    CASE cmd.kind = "Add" -> DatabaseQueries_add(st, cmd.value, cmd.key)
      [] cmd.kind = "AddCurrency" -> DatabaseQueries_add_currency(st, cmd.value, cmd.key)
      [] cmd.kind = "AddInstrument" ->
            DatabaseQueries_add_instrument(st, instrument_kind(cmd.variant),
                                           cmd.value, cmd.key)

\* One iteration of drain_buffer's loop body: the match on the command.
apply_cmd(st, cmd) ==
    CASE cmd.kind = "Add" -> DatabaseQueries_add(st, cmd.key, cmd.value)
      [] cmd.kind = "AddCurrency" -> DatabaseQueries_add_currency(st, cmd.key, cmd.value)
      [] cmd.kind = "AddInstrument" ->
            DatabaseQueries_add_instrument(st, instrument_kind(cmd.variant),
                                           cmd.key, cmd.value)

\* The table a command is written to, by drain_buffer's dispatch.
TableOf(cmd) ==
    CASE cmd.kind = "Add" -> GeneralTable
      [] cmd.kind = "AddCurrency" -> CurrencyTable
      [] cmd.kind = "AddInstrument" -> instrument_kind(cmd.variant)

\* Mutant of conflict_error: a plain INSERT, which fails on a row that
\* shares the key.
conflict_error_insert(rows, key) == \E r \in rows : r.key = key

\* Whether the storage operation fails because a row with the key exists:
\* never, the operation is an upsert.
conflict_error(rows, key) == FALSE

\* The result of the storage operation of cmd on st is an Err.
write_fails(st, cmd, write_ok) ==
    ~write_ok \/ conflict_error(st[TableOf(cmd)], cmd.key)

\* DatabaseQueries::load_instruments(pool): the rows of all the instrument
\* tables, each rebuilt as an instrument of the variant of its table.
load_instruments(st) ==
    UNION {{[variant |-> variant, key |-> r.key, value |-> r.value] :
                r \in st[instrument_kind(variant)]} : variant \in Variants}

\* load(): the rows of the general table inserted into a HashMap.
load ==
    [k \in {r.key : r \in storage[GeneralTable]} |->
        CHOOSE v \in {r.value : r \in storage[GeneralTable]} :
            [key |-> k, value |-> v] \in storage[GeneralTable]]

(* --------------------------- the channel ------------------------------- *)

\* Mutant of has_permit: send() takes no permit.
has_permit_always(q) == TRUE

\* tx.send(): a permit is available when the channel holds fewer than its
\* capacity.
has_permit(q) == Len(q) < QueueCap

\* Mutant of channel_push: the value is put at the head of the channel.
channel_push_head(q, cmd) == <<cmd>> \o q

\* tx.send(): the value is put at the tail of the channel.
channel_push(q, cmd) == Append(q, cmd)

\* rx.try_recv(): Ok(msg) delivers the oldest value of the channel.
try_recv_msg(q) == Head(q)

\* Mutant of push_back: buffer.push_front(msg).
push_front(buf, msg) == <<msg>> \o buf

\* buffer.push_back(msg)
push_back(buf, msg) == Append(buf, msg)

\* buffer.drain(..): the iterator yields the front element first.
drain_next(buf) == Head(buf)

\* Mutant of should_drain: the test of the buffer is inverted.
should_drain_inverted(el, interval, buf) == el >= interval /\ buf = <<>>

\* The loop's condition for flushing.
should_drain(el, interval, buf) == el >= interval /\ buf # <<>>

(* ----------------------------- Init ------------------------------------ *)

\* The state before connect(): nothing connected, enqueued or stored.
InitRun ==
    /\ connectResult = "none"
    /\ pc = [p \in Procs |-> "idle"]
    /\ pending = [p \in Procs |-> NoPending]
    /\ sendResult = [p \in Procs |-> "none"]
    /\ issued = [p \in Procs |-> 0]
    /\ queue = <<>>
    /\ wpc = "unspawned"
    /\ worker_error = "none"
    /\ buffer = <<>>
    /\ elapsed = 0
    /\ storage = [t \in Tables |-> {}]
    /\ admitted = <<>>
    /\ applied = <<>>
    /\ nrecv = 0
    /\ lastRead = NoRead

\* The state before connect(), the producers drawing from one of the
\* payload families.
InitCommon == payloads \in PayloadFamilies /\ InitRun

\* No quote tick is under consideration.
QuoteIdle == tick = NoTick /\ price_type = "-" /\ extracted = NoPrice

\* The program as written: the interval is get_buffer_interval().
Init == InitCommon /\ QuoteIdle /\ buffer_interval = get_buffer_interval

\* The interval as the tunable the specification describes.
InitInterval ==
    InitCommon /\ QuoteIdle /\ buffer_interval \in {get_buffer_interval, MaxInterval}

(* ---------------------------- connect ---------------------------------- *)

\* connect(): connect_pg(..).await.unwrap() for the read pool, then the
\* channel is created, the worker task spawned and Ok(handle) returned.
Connect(pool_ok) ==
    /\ connectResult = "none"
    /\ IF pool_ok
       THEN /\ connectResult' = "Ok"
            /\ wpc' = "connecting"
       ELSE /\ connectResult' = "panic"
            /\ wpc' = wpc
    /\ UNCHANGED <<producerVars, queue, worker_error, buffer, quoteVars, payloads,
                   buffer_interval, elapsed, storage, admitted, applied, nrecv>>
    /\ lastRead' = NoRead

(* --------------------------- the worker -------------------------------- *)

\* A panic of the worker task: the task ends, its locals (rx, buffer) are
\* dropped, and the values still in the channel are dropped with rx.
WorkerPanic(why) ==
    /\ wpc' = "panicked"
    /\ worker_error' = why
    /\ queue' = <<>>
    /\ buffer' = <<>>

\* handle_message: connect_pg(pg_connect_options).await.unwrap(), then the
\* locals are set up.
WorkerConnect(conn_ok) ==
    /\ wpc = "connecting"
    /\ IF conn_ok
       THEN /\ wpc' = "loop"
            /\ elapsed' = 0
            /\ UNCHANGED <<worker_error, queue, buffer>>
       ELSE /\ WorkerPanic("connect_pg")
            /\ UNCHANGED elapsed
    /\ UNCHANGED <<connectResult, producerVars, quoteVars,
                   payloads, buffer_interval, storage, admitted,
                   applied, nrecv>>
    /\ lastRead' = NoRead

\* The loop's first branch: the call of drain_buffer.
LoopDrain ==
    /\ wpc = "loop"
    /\ should_drain(elapsed, buffer_interval, buffer)
    /\ wpc' = "draining"
    /\ UNCHANGED <<connectResult, producerVars, queue, worker_error, buffer,
                   quoteVars,
                   payloads, buffer_interval, elapsed, storage, admitted, applied, nrecv>>
    /\ lastRead' = NoRead

\* One iteration of drain_buffer's loop: the storage operation of the next
\* command and the unwrap of its result.  After the last command
\* drain_buffer returns: in the loop last_drain is reset, after the loop
\* handle_message returns.
DrainStep(write_ok) ==
    /\ wpc \in {"draining", "final_drain"}
    /\ buffer # <<>>
    /\ IF ~write_fails(storage, drain_next(buffer), write_ok)
       THEN /\ storage' = apply_cmd(storage, drain_next(buffer))
            /\ applied' = Append(applied, drain_next(buffer))
            /\ buffer' = Tail(buffer)
            /\ IF Tail(buffer) # <<>>
               THEN UNCHANGED <<wpc, elapsed>>
               ELSE IF wpc = "draining"
                    THEN wpc' = "loop" /\ elapsed' = 0
                    ELSE wpc' = "stopped" /\ elapsed' = elapsed
            /\ UNCHANGED <<worker_error, queue>>
       ELSE /\ WorkerPanic("write")
            /\ UNCHANGED <<storage, applied, elapsed>>
    /\ UNCHANGED <<connectResult, producerVars, quoteVars,
                   payloads, buffer_interval, admitted, nrecv>>
    /\ lastRead' = NoRead

\* The loop's else branch, try_recv() = Ok(msg).
RecvOk ==
    /\ wpc = "loop"
    /\ ~should_drain(elapsed, buffer_interval, buffer)
    /\ queue # <<>>
    /\ buffer' = push_back(buffer, try_recv_msg(queue))
    /\ queue' = Tail(queue)
    /\ nrecv' = nrecv + 1
    /\ UNCHANGED <<connectResult, producerVars, wpc, worker_error, quoteVars,
                   payloads, buffer_interval,
                   elapsed, storage, admitted, applied>>
    /\ lastRead' = NoRead

\* The loop's else branch, try_recv() = Err(Empty): sleep(recv_interval).
RecvEmpty ==
    /\ wpc = "loop"
    /\ ~should_drain(elapsed, buffer_interval, buffer)
    /\ queue = <<>>
    /\ LiveProcs # {}
    /\ elapsed' = Min(elapsed + recv_interval, MaxElapsed)
    /\ UNCHANGED <<connectResult, producerVars, queue, wpc, worker_error, buffer,
                   quoteVars, payloads, buffer_interval, storage, admitted, applied, nrecv>>
    /\ lastRead' = NoRead

\* The loop's else branch, try_recv() = Err(Disconnected): break, then the
\* test of the buffer after the loop.
RecvDisconnected ==
    /\ wpc = "loop"
    /\ ~should_drain(elapsed, buffer_interval, buffer)
    /\ queue = <<>>
    /\ LiveProcs = {}
    /\ wpc' = IF buffer # <<>> THEN "final_drain" ELSE "stopped"
    /\ UNCHANGED <<connectResult, producerVars, queue, worker_error, buffer,
                   quoteVars,
                   payloads, buffer_interval, elapsed, storage, admitted, applied, nrecv>>
    /\ lastRead' = NoRead

\* Time passes while the worker runs.
Tick ==
    /\ wpc \in {"loop", "draining"}
    /\ elapsed < MaxElapsed
    /\ elapsed' = elapsed + 1
    /\ UNCHANGED <<connectResult, producerVars, queue, wpc, worker_error, buffer,
                   quoteVars, payloads, buffer_interval, storage, admitted, applied, nrecv>>
    /\ lastRead' = NoRead

(* -------------------------- the producers ------------------------------ *)

\* The outcome of tx.send(cmd) for producer p once it can be decided:
\* an error on a closed channel, otherwise the command is put in the channel.
SendOutcome(p, cmd) ==
    IF RxClosed
    THEN /\ sendResult' = [sendResult EXCEPT ![p] = "Err"]
         /\ UNCHANGED <<queue, admitted>>
    ELSE /\ sendResult' = [sendResult EXCEPT ![p] = "Ok"]
         /\ queue' = channel_push(queue, cmd)
         /\ admitted' = Append(admitted, cmd)

\* add / add_currency / add_instrument: the command is built and
\* self.tx.send(query).await is called.
Send(p, payload) ==
    /\ connectResult = "Ok"
    /\ pc[p] = "idle"
    /\ SumOver(issued, Procs) < MaxCmds
    /\ LET cmd == [kind |-> payload.kind, variant |-> payload.variant,
                   key |-> payload.key, value |-> payload.value,
                   src |-> p, n |-> issued[p] + 1]
       IN /\ issued' = [issued EXCEPT ![p] = @ + 1]
          /\ IF RxClosed \/ has_permit(queue)
             THEN /\ SendOutcome(p, cmd)
                  /\ UNCHANGED <<pc, pending>>
             ELSE /\ pc' = [pc EXCEPT ![p] = "suspended"]
                  /\ pending' = [pending EXCEPT ![p] = [cmd |-> cmd, at |-> nrecv]]
                  /\ UNCHANGED <<sendResult, queue, admitted>>
    /\ UNCHANGED <<connectResult, workerVars, quoteVars,
                   payloads, buffer_interval, storage, applied,
                   nrecv>>
    /\ lastRead' = NoRead

\* A suspended send().await is woken: by a freed permit or by the closing
\* of the channel.
SendResume(p) ==
    /\ pc[p] = "suspended"
    /\ RxClosed \/ has_permit(queue)
    /\ SendOutcome(p, pending[p].cmd)
    /\ pc' = [pc EXCEPT ![p] = "idle"]
    /\ pending' = [pending EXCEPT ![p] = NoPending]
    /\ UNCHANGED <<connectResult, issued, workerVars, quoteVars, payloads, buffer_interval,
                   storage, applied, nrecv>>
    /\ lastRead' = NoRead

\* A producer drops its reference to the handle.
DropHandle(p) ==
    /\ connectResult = "Ok"
    /\ pc[p] = "idle"
    /\ pc' = [pc EXCEPT ![p] = "dropped"]
    /\ UNCHANGED <<connectResult, pending, sendResult, issued, queue,
                   workerVars, quoteVars,
                   payloads, buffer_interval, storage, admitted, applied, nrecv>>
    /\ lastRead' = NoRead

(* ----------------------------- reads ----------------------------------- *)

\* The read operations of the handle.  load_currency and load_instrument
\* take a key, the others read whole tables.
ReadOps == {"load", "load_currency", "load_currencies", "load_instrument", "load_instruments"}

\* A row as a read returns it: the rows of the general and the currency
\* table have no variant.
PlainRows(rows) == {[variant |-> "-", key |-> r.key, value |-> r.value] : r \in rows}

\* DatabaseQueries::load_currencies(pool)
load_currencies(st) == PlainRows(st[CurrencyTable])

\* DatabaseQueries::load_currency(pool, code): the row of the code, if any.
load_currency(st, code) == {r \in load_currencies(st) : r.key = code}

\* DatabaseQueries::load_instrument(pool, instrument_id): the instrument of
\* the id in whichever instrument table holds it, if any.
load_instrument(st, id) == {r \in load_instruments(st) : r.key = id}

\* What a read returns on the store as it is now.
ReadResult(op, key) ==
    CASE op = "load" ->
            {[variant |-> "-", key |-> k, value |-> load[k]] : k \in DOMAIN load}
      [] op = "load_currency" -> load_currency(storage, key)
      [] op = "load_currencies" -> load_currencies(storage)
      [] op = "load_instrument" -> load_instrument(storage, key)
      [] op = "load_instruments" -> load_instruments(storage)

\* The keys of the run's payloads of a kind, or one key when there is none.
KeysOfKind(kind) ==
    LET keys == {c.key : c \in {d \in payloads : d.kind = kind}}
    IN IF keys = {} THEN {"K0"} ELSE keys

\* The keys a read operation is called with.
ReadKeys(op) ==
    CASE op = "load_currency" -> KeysOfKind("AddCurrency")
      [] op = "load_instrument" -> KeysOfKind("AddInstrument")
      [] OTHER -> {"-"}

\* Mutant of Read: the read waits for a free place in the channel, as an
\* enqueue does.
Read_through_queue(op, key) ==
    /\ connectResult = "Ok"
    /\ \E p \in Procs : pc[p] = "idle"
    /\ has_permit(queue)
    /\ lastRead' = [op |-> op, key |-> key, result |-> ReadResult(op, key)]
    /\ UNCHANGED <<connectResult, producerVars, queue, workerVars, quoteVars, payloads,
                   buffer_interval, storage, admitted, applied, nrecv>>

\* load / load_currency / load_currencies / load_instrument /
\* load_instruments by a caller that holds the handle and is not inside an
\* enqueue: a query on self.pool, which returns the rows the store holds
\* now.  Nothing but the caller's result changes.
Read(op, key) ==
    /\ connectResult = "Ok"
    /\ \E p \in Procs : pc[p] = "idle"
    /\ lastRead' = [op |-> op, key |-> key, result |-> ReadResult(op, key)]
    /\ UNCHANGED <<connectResult, producerVars, queue, workerVars, quoteVars, payloads,
                   buffer_interval, storage, admitted, applied, nrecv>>

(* ------------------------- specifications ------------------------------ *)

Next ==
    \/ \E pool_ok \in BOOLEAN : Connect(pool_ok)
    \/ \E conn_ok \in BOOLEAN : WorkerConnect(conn_ok)
    \/ LoopDrain
    \/ \E write_ok \in BOOLEAN : DrainStep(write_ok)
    \/ RecvOk
    \/ RecvEmpty
    \/ RecvDisconnected
    \/ Tick
    \/ \E p \in Procs : \E payload \in payloads : Send(p, payload)
    \/ \E p \in Procs : SendResume(p)
    \/ \E p \in Procs : DropHandle(p)

Spec == Init /\ [][Next]_vars

SpecInterval == InitInterval /\ [][Next]_vars

\* The runs in which both connections are established: connect_pg succeeds
\* in connect and in handle_message; a write may still fail.
NextConnected ==
    \/ Connect(TRUE)
    \/ WorkerConnect(TRUE)
    \/ LoopDrain
    \/ \E write_ok \in BOOLEAN : DrainStep(write_ok)
    \/ RecvOk
    \/ RecvEmpty
    \/ RecvDisconnected
    \/ Tick
    \/ \E p \in Procs : \E payload \in payloads : Send(p, payload)
    \/ \E p \in Procs : SendResume(p)
    \/ \E p \in Procs : DropHandle(p)

SpecConnected == InitInterval /\ [][NextConnected]_vars

\* The runs in which no connection and no write fails.
NextNoFault ==
    \/ Connect(TRUE)
    \/ WorkerConnect(TRUE)
    \/ LoopDrain
    \/ DrainStep(TRUE)
    \/ RecvOk
    \/ RecvEmpty
    \/ RecvDisconnected
    \/ Tick
    \/ \E p \in Procs : \E payload \in payloads : Send(p, payload)
    \/ \E p \in Procs : SendResume(p)
    \/ \E p \in Procs : DropHandle(p)

SpecNoFault == InitInterval /\ [][NextNoFault]_vars

(* -------------------- one command written twice ------------------------ *)

\* The currency and instrument commands the store is tried with.
UpsertPayloads ==
    {Payload("AddCurrency", "-", k, v) : k \in {"USD", "EUR"}, v \in {"v1", "v2"}}
        \cup {Payload("AddInstrument", variant, "I1", v) :
                variant \in Variants, v \in {"v1", "v2"}}

\* The contents of one table before the run: for each of two keys no row or
\* one row.  The store outlives the process, so a run starts on any content.
TableStates(k1, k2) ==
    {R1 \cup R2 : R1 \in {{}} \cup {{[key |-> k1, value |-> v]} : v \in {"v1", "v2"}},
                  R2 \in {{}} \cup {{[key |-> k2, value |-> v]} : v \in {"v1", "v2"}}}

\* The store before the run, for a command of table t and key k: any
\* content of t over k and one other key, and the general table empty or not.
StorageStates(t, k) ==
    {[u \in Tables |-> IF u = t THEN rows ELSE IF u = GeneralTable THEN g ELSE {}] :
        rows \in TableStates(k, "K2"),
        g \in {{}, {[key |-> "A", value |-> "v1"]}}}

\* The command a producer builds from a payload: its n-th command.
CmdOf(payload, p, n) ==
    [kind |-> payload.kind, variant |-> payload.variant, key |-> payload.key,
     value |-> payload.value, src |-> p, n |-> n]

\* The worker is about to run drain_buffer on a buffer that holds the same
\* command twice, received from producer p1 within one flush interval, on a
\* store of any content.
InitUpsert ==
    /\ QuoteIdle
    /\ \E pl \in UpsertPayloads :
        LET c1 == CmdOf(pl, "p1", 1)
            c2 == CmdOf(pl, "p1", 2)
        IN /\ payloads = {pl}
           /\ storage \in StorageStates(TableOf(c1), c1.key)
           /\ buffer = <<c1, c2>>
           /\ admitted = <<c1, c2>>
    /\ connectResult = "Ok"
    /\ pc = [p \in Procs |-> "idle"]
    /\ pending = [p \in Procs |-> NoPending]
    /\ sendResult = [p \in Procs |-> IF p = "p1" THEN "Ok" ELSE "none"]
    /\ issued = [p \in Procs |-> IF p = "p1" THEN 2 ELSE 0]
    /\ queue = <<>>
    /\ wpc = "draining"
    /\ worker_error = "none"
    /\ buffer_interval = MaxInterval
    /\ elapsed = MaxInterval
    /\ applied = <<>>
    /\ nrecv = 2
    /\ lastRead = NoRead

\* drain_buffer on that buffer, no storage operation failing for a reason
\* of the environment.
NextUpsert == DrainStep(TRUE)

SpecUpsert == InitUpsert /\ [][NextUpsert]_vars

(* ------------- instruments of several variants, two producers ---------- *)

\* Three instruments of three variants with three ids.
InstrumentScenarioPayloads ==
    {Payload("AddInstrument", "CryptoFuture", "I1", "v1"),
     Payload("AddInstrument", "Equity", "I2", "v1"),
     Payload("AddInstrument", "OptionsSpread", "I3", "v1")}

InitInstruments ==
    /\ payloads = InstrumentScenarioPayloads
    /\ InitRun
    /\ QuoteIdle
    /\ buffer_interval \in {get_buffer_interval, MaxInterval}

SpecInstruments == InitInstruments /\ [][NextConnected]_vars

(* ------------------------- the program with reads ---------------------- *)

\* The runs with reads: the producers write one generic key, which load()
\* reads back.
InitReads ==
    /\ payloads = GenericPayloads
    /\ InitRun
    /\ QuoteIdle
    /\ buffer_interval = get_buffer_interval

NextReads ==
    \/ Next
    \/ \E op \in ReadOps : \E key \in ReadKeys(op) : Read(op, key)

SpecReads == InitReads /\ [][NextReads]_vars

(* ----------------------- QuoteTick::extract_price ---------------------- *)

\* The least and the greatest value of a Price's raw, an i64 of RawBits bits.
RawMin == 0 - 2 ^ (RawBits - 1)
RawMax == 2 ^ (RawBits - 1) - 1

\* A sum of two i64 as the machine keeps it when overflow is not checked.
wrapping_add(a, b) == ((a + b - RawMin) % 2 ^ RawBits) + RawMin

\* a / b on i64, b positive: the quotient is truncated toward zero.
i64_div(a, b) == IF a >= 0 THEN a \div b ELSE 0 - ((0 - a) \div b)

\* Price::from_raw(raw, precision)
Price_from_raw(raw, precision) == [raw |-> raw, precision |-> precision, outcome |-> "Ok"]

\* A Price held in a tick, as a returned value.
Returned(price) == Price_from_raw(price.raw, price.precision)

\* The call panics.
Panicked == [raw |-> 0, precision |-> 0, outcome |-> "panic"]

PriceTypes == {"Bid", "Ask", "Mid", "Last"}

\* The ticks extract_price is tried on: QuoteTick::new keeps the precisions
\* of bid and ask equal.
Ticks ==
    {[bid |-> [raw |-> b, precision |-> p], ask |-> [raw |-> a, precision |-> p],
      set |-> TRUE] : b \in RawMin..RawMax, a \in RawMin..RawMax, p \in 0..FIXED_PRECISION}

\* extract_price(&self, price_type).  The sum bid.raw + ask.raw is an i64
\* sum: when it leaves the i64 range the call panics in a build with
\* overflow checks and goes on with the wrapped sum in a build without.
extract_price(self, pt, overflow_checks) ==
    CASE pt = "Bid" -> Returned(self.bid)
      [] pt = "Ask" -> Returned(self.ask)
      [] pt = "Mid" ->
            IF overflow_checks /\ self.bid.raw + self.ask.raw \notin RawMin..RawMax
            THEN Panicked
            ELSE Price_from_raw(i64_div(wrapping_add(self.bid.raw, self.ask.raw), 2),
                                Min(self.bid.precision + 1, FIXED_PRECISION))
      [] OTHER -> Panicked

\* The variables of the cache, which a call of extract_price leaves alone.
cacheVars ==
    <<payloads, connectResult, pc, pending, sendResult, issued, queue, wpc, worker_error,
      buffer, buffer_interval, elapsed, storage, admitted, applied, nrecv, lastRead>>

InitQuote ==
    /\ payloads = GenericPayloads
    /\ InitRun
    /\ buffer_interval = get_buffer_interval
    /\ tick \in Ticks
    /\ price_type \in PriceTypes
    /\ extracted = NoPrice

\* One call of extract_price on the tick.
ExtractPrice(overflow_checks) ==
    /\ extracted = NoPrice
    /\ extracted' = extract_price(tick, price_type, overflow_checks)
    /\ UNCHANGED <<cacheVars, tick, price_type>>

NextQuote == \E overflow_checks \in BOOLEAN : ExtractPrice(overflow_checks)

SpecQuote == InitQuote /\ [][NextQuote]_vars

(* --------------------- the worker scheduled fairly --------------------- *)

\* A step of the worker task when no connection and no storage operation
\* fails.
WorkerStep ==
    \/ WorkerConnect(TRUE)
    \/ LoopDrain
    \/ DrainStep(TRUE)
    \/ RecvOk
    \/ RecvEmpty
    \/ RecvDisconnected

\* The runtime keeps scheduling the spawned task: it is never left forever
\* at a point where it can go on.  Its sleeps return, which is how time
\* advances for it.
\* The payloads do not matter to whether a command is applied: the
\* producers of the fair runs enqueue one payload.
InitFair ==
    /\ payloads = {Payload("Add", "-", "A", "v1")}
    /\ InitRun
    /\ QuoteIdle
    /\ buffer_interval \in {get_buffer_interval, MaxInterval}

SpecFairNoFault == InitFair /\ [][NextNoFault]_vars /\ WF_vars(WorkerStep)

(* ------------------------------ claims --------------------------------- *)

\* A producer's enqueue call starts in this step.
SendStarts(p) == issued'[p] # issued[p]

\* A producer's enqueue call returns in this step.
SendReturns(p) ==
    \/ (SendStarts(p) /\ pc'[p] = "idle")
    \/ (pc[p] = "suspended" /\ pc'[p] # "suspended")

\* C1: the storage operations the worker has executed are, at every state, a
\* prefix of the commands in the order of their admission to the queue, and
\* no command occurs twice among them: nothing is applied out of admission
\* order or twice, whatever the flush interval and however many drain_buffer
\* calls the commands are spread over.
C1_AppliedInAdmissionOrder ==
    /\ IsPrefix(applied, admitted)
    /\ \A i, j \in 1..Len(applied) : i # j => applied[i] # applied[j]

\* C1 witness: with the interval zero every drain_buffer call writes one
\* command; three commands of both producers have been written, in three
\* calls.
C1_Witness ==
    /\ buffer_interval = 0
    /\ Len(applied) = 3
    /\ {applied[i].src : i \in 1..Len(applied)} = Procs

\* C2: for every producer, its commands are applied in the order in which
\* it made the enqueue calls (n numbers a producer's calls).
C2_PerProducerOrder ==
    \A i, j \in 1..Len(applied) :
        (i < j /\ applied[i].src = applied[j].src) => applied[i].n < applied[j].n

\* C2 witness: the applied commands of two producers are interleaved.
C2_Witness ==
    \E i, j, k \in 1..Len(applied) :
        /\ i < j /\ j < k
        /\ applied[i].src = applied[k].src
        /\ applied[i].src # applied[j].src

\* C3 (as claimed): when every producer handle has been dropped and the
\* worker has terminated, every command whose enqueue completed has been
\* applied, and queue and buffer are empty.
C3_DrainOnClose ==
    (connectResult = "Ok" /\ LiveProcs = {} /\ WorkerTerminated) =>
        (applied = admitted /\ queue = <<>> /\ buffer = <<>>)

\* C4, the step part: an enqueue that starts on a full queue suspends and
\* leaves the queue as it is; a suspended enqueue stays suspended while the
\* queue is full; an admission appends its command at the tail of the queue
\* and keeps what the queue held; and a suspended enqueue returns Ok only
\* after the worker has received a command since it was suspended.
C4_Step ==
    /\ \A p \in Procs :
        /\ (SendStarts(p) /\ Len(queue) >= QueueCap) =>
              (pc'[p] = "suspended" /\ queue' = queue /\ admitted' = admitted)
        /\ (pc[p] = "suspended" /\ Len(queue) >= QueueCap) =>
              (pc'[p] = "suspended" /\ pending'[p] = pending[p])
        /\ (pc[p] = "suspended" /\ SendReturns(p) /\ sendResult'[p] = "Ok") =>
              (/\ nrecv > pending[p].at
               /\ queue' = Append(queue, pending[p].cmd))
    /\ admitted' # admitted =>
          /\ Len(admitted') = Len(admitted) + 1
          /\ admitted' = Append(admitted, admitted'[Len(admitted')])
          /\ queue' = Append(queue, admitted'[Len(admitted')])

\* C4: the queue never holds more than its capacity, and enqueues on a full
\* queue behave as C4_Step says.
C4_Backpressure == [](Len(queue) <= QueueCap) /\ [][C4_Step]_vars

\* C4 witness: the queue is at capacity, an enqueue is suspended on it, and
\* the queue holds every admitted command and not the suspended one.
C4_Witness ==
    \E p \in Procs :
        /\ pc[p] = "suspended"
        /\ Len(queue) = QueueCap
        /\ \A i \in 1..Len(queue) : queue[i] # pending[p].cmd
        /\ admitted = queue

\* C5 (as claimed): while a producer handle is live, the commands whose
\* enqueue returned Ok are exactly the applied ones, then the buffered ones,
\* then the queued ones: each is in exactly one of the three places.
C5_NoCommandLost ==
    LiveProcs # {} => admitted = applied \o buffer \o queue

\* C6: an enqueue that starts or resumes after the worker has terminated
\* returns a send error and changes neither queue, buffer nor storage; and
\* an enqueue returns Ok only while the worker has not terminated.
C6_Step ==
    \A p \in Procs :
        /\ (WorkerTerminated /\ (SendStarts(p) \/ (pc[p] = "suspended" /\ pc'[p] # pc[p]))) =>
              /\ pc'[p] = "idle"
              /\ sendResult'[p] = "Err"
              /\ UNCHANGED <<queue, buffer, storage, admitted, applied>>
        /\ (SendReturns(p) /\ sendResult'[p] = "Ok") => ~WorkerTerminated

C6_SendErrorAfterTermination == [][C6_Step]_vars

\* C6 witness: the worker has terminated and an enqueue made by a producer
\* afterwards has returned the send error.
C6_Witness ==
    /\ WorkerTerminated
    /\ \E p \in Procs : sendResult[p] = "Err" /\ pc[p] = "idle"

\* C7 (as claimed): the worker has stopped only when every producer handle
\* has been dropped and the queue is empty.
C7_StopsOnlyWhenClosed ==
    WorkerTerminated => (LiveProcs = {} /\ queue = <<>>)

\* C8 (as claimed): after a write has failed for a command, the worker keeps
\* running.
C8_WriteFailureIsolated ==
    worker_error = "write" => ~WorkerTerminated

\* C9 (as claimed): a connection failure at startup is a typed error of
\* connect: connect does not panic, it returns no handle whose worker has
\* failed to connect, and no enqueue is accepted into the queue of a worker
\* that fails to connect.
C9_ConnectFailureSurfaced ==
    /\ connectResult # "panic"
    /\ connectResult = "Ok" => worker_error # "connect_pg"
    /\ worker_error = "connect_pg" => admitted = <<>>

\* The value of the last admitted command for a key of a table, as a set
\* (empty when no admitted command has this table and key).
LastAdmitted(table, key) ==
    LET idx == {i \in 1..Len(admitted) :
                    TableOf(admitted[i]) = table /\ admitted[i].key = key}
    IN {admitted[i].value : i \in {j \in idx : \A h \in idx : h <= j}}

AllKeys == {c.key : c \in UNION PayloadFamilies}

\* C10 (as claimed): once one producer has enqueued its commands, every
\* handle is dropped and the worker has terminated, every table holds, for
\* every key, exactly the row of the last enqueued command for that key and
\* nothing else, and load() maps each such generic key to that value.
C10_LastWriteWins ==
    (/\ connectResult = "Ok" /\ LiveProcs = {} /\ WorkerTerminated
     /\ \E p \in Procs : \A i \in 1..Len(admitted) : admitted[i].src = p) =>
        /\ \A t \in Tables :
            storage[t] =
                UNION {{[key |-> k, value |-> v] : v \in LastAdmitted(t, k)} : k \in AllKeys}
        /\ DOMAIN load = {k \in AllKeys : LastAdmitted(GeneralTable, k) # {}}
        /\ \A k \in DOMAIN load : load[k] \in LastAdmitted(GeneralTable, k)

\* The payload of a command: the command without its producer and number.
PayloadOf(cmd) ==
    [kind |-> cmd.kind, variant |-> cmd.variant, key |-> cmd.key, value |-> cmd.value]

\* The worker writes, in this step, the command it has written last.
C11_SecondApplication ==
    /\ applied # <<>>
    /\ Len(applied') = Len(applied) + 1
    /\ PayloadOf(applied'[Len(applied')]) = PayloadOf(applied[Len(applied)])

\* C11: upsert idempotence.  On every content of the store and for every
\* CurrencyUpsert and InstrumentUpsert command, writing the command a second
\* time in a row leaves the store as the first writing left it, and neither
\* writing fails on the row that shares the key: the worker does not panic
\* on any of the two.
C11_UpsertIdempotent ==
    /\ [](wpc # "panicked")
    /\ [][C11_SecondApplication => storage' = storage]_vars
    /\ [][wpc = "draining" => Len(applied') = Len(applied) + 1]_vars

\* C11 witness: an instrument command has been written twice on a store that
\* held a different row for its key and a row of another key; that other
\* row is still there.
C11_Witness ==
    /\ Len(applied) = 2
    /\ applied = admitted
    /\ applied[2].kind = "AddInstrument"
    /\ wpc = "loop"
    /\ storage[TableOf(applied[2])] =
        {[key |-> applied[2].key, value |-> applied[2].value],
         [key |-> "K2", value |-> "v1"]}

\* The instrument a command carries, as load_instruments rebuilds it.
InstrumentOf(cmd) == [variant |-> cmd.variant, key |-> cmd.key, value |-> cmd.value]

\* The tables that hold a row with this key.
TablesHolding(key) == {t \in Tables : \E r \in storage[t] : r.key = key}

\* C12 (as claimed): the instrument dispatch is exhaustive and keeps the
\* variant.  Distinct variants are written to distinct tables; an instrument
\* the worker has written is in exactly one table, that of its variant; and
\* once both producers have enqueued instruments of distinct ids, every
\* handle is dropped and the worker has terminated, load_instruments gives
\* exactly the enqueued instruments, each with its variant.
C12_InstrumentDispatch ==
    /\ \A v \in Variants, w \in Variants :
        v # w => instrument_kind(v) # instrument_kind(w)
    /\ \A i \in 1..Len(applied) :
        applied[i].kind = "AddInstrument" =>
            TablesHolding(applied[i].key) = {instrument_kind(applied[i].variant)}
    /\ (/\ connectResult = "Ok" /\ LiveProcs = {} /\ WorkerTerminated
        /\ \A p \in Procs : \E i \in 1..Len(admitted) : admitted[i].src = p) =>
            load_instruments(storage) = {InstrumentOf(admitted[i]) : i \in 1..Len(admitted)}

\* What a read by key gives for the key of a command: load() looked up at
\* the key, load_currency of the code, load_instrument of the id.
ReadOfKey(cmd) ==
    CASE cmd.kind = "Add" -> {r \in ReadResult("load", "-") : r.key = cmd.key}
      [] cmd.kind = "AddCurrency" -> ReadResult("load_currency", cmd.key)
      [] cmd.kind = "AddInstrument" -> ReadResult("load_instrument", cmd.key)

\* The row a read gives for a command's payload.
RowOf(cmd) ==
    [variant |-> IF cmd.kind = "AddInstrument" THEN cmd.variant ELSE "-",
     key |-> cmd.key, value |-> cmd.value]

\* No command for the table and key of applied[i] has been applied after it.
LastAppliedForKey(i) ==
    \A j \in (i + 1)..Len(applied) :
        ~(TableOf(applied[j]) = TableOf(applied[i]) /\ applied[j].key = applied[i].key)

\* C13: read-after-flush.  In every state, for every command the worker has
\* applied and that no later applied command for the same key has replaced,
\* a read of its key (load, load_currency, load_instrument) gives exactly
\* that command's payload, whatever is still queued or buffered for the key.
C13_ReadAfterFlush ==
    \A i \in 1..Len(applied) :
        LastAppliedForKey(i) => ReadOfKey(applied[i]) = {RowOf(applied[i])}

\* C13 witness: two commands for one key have been applied, the second with
\* another value than the first, and a third for the key is admitted but not
\* applied; the read gives the second one's value.
C13_Witness ==
    /\ Len(applied) = 2
    /\ Len(admitted) = 3
    /\ applied[1].key = applied[2].key
    /\ applied[1].value # applied[2].value
    /\ admitted[3].key = applied[2].key
    /\ admitted[3].value # applied[2].value
    /\ ReadOfKey(admitted[3]) = {RowOf(applied[2])}

\* C14 (as claimed): for every QuoteTick, extract_price(Bid) returns the bid
\* price, extract_price(Ask) the ask price, and extract_price(Mid) a price
\* whose raw is (bid.raw + ask.raw) / 2, the quotient of the integers, with
\* precision min(bid.precision + 1, FIXED_PRECISION).
C14_ExtractPrice ==
    extracted # NoPrice =>
        /\ price_type = "Bid" => extracted = Returned(tick.bid)
        /\ price_type = "Ask" => extracted = Returned(tick.ask)
        /\ price_type = "Mid" =>
            extracted = Price_from_raw(i64_div(tick.bid.raw + tick.ask.raw, 2),
                                       Min(tick.bid.precision + 1, FIXED_PRECISION))

\* C15: with the worker scheduled fairly, its sleeps returning and no
\* storage failure, every admitted command is eventually applied, for every
\* flush interval and also when no handle is ever dropped: the i-th admitted
\* command leads to the i-th applied one.
C15_EventuallyApplied ==
    \A i \in 1..MaxCmds : (Len(admitted) >= i) ~> (Len(applied) >= i)

\* C15 witness: with a positive flush interval, all the commands are
\* admitted and applied while both producers still hold the handle.
C15_Witness ==
    /\ buffer_interval = MaxInterval
    /\ Len(admitted) = MaxCmds
    /\ applied = admitted
    /\ \A p \in Procs : pc[p] = "idle"

\* The worker task moves in this step.
WorkerMoves == wpc' # wpc \/ buffer' # buffer \/ nrecv' # nrecv

\* A step of a flush applies the oldest buffered command and removes it;
\* the step that empties the buffer ends the flush and resets the
\* last-flush time.
C16_FlushStep ==
    /\ buffer # <<>>
    /\ applied' = Append(applied, Head(buffer))
    /\ storage' = apply_cmd(storage, Head(buffer))
    /\ buffer' = Tail(buffer)
    /\ IF Tail(buffer) = <<>> THEN wpc' = "loop" /\ elapsed' = 0 ELSE wpc' = "draining"

\* A cycle that does not flush: one non-blocking receive, which appends the
\* message at the tail of the buffer, or pauses on an empty queue, or leaves
\* the loop on a closed one.
C16_ReceiveStep ==
    \/ (/\ queue # <<>>
        /\ buffer' = Append(buffer, Head(queue))
        /\ queue' = Tail(queue)
        /\ nrecv' = nrecv + 1
        /\ wpc' = "loop")
    \/ (/\ queue = <<>>
        /\ LiveProcs # {}
        /\ UNCHANGED <<wpc, buffer, queue, nrecv>>)
    \/ (/\ queue = <<>>
        /\ LiveProcs = {}
        /\ wpc' \in {"final_drain", "stopped"}
        /\ UNCHANGED <<buffer, queue, nrecv>>)

C16_Step ==
    /\ (wpc = "loop" /\ wpc' = "draining") =>
            should_drain(elapsed, buffer_interval, buffer)
    /\ (wpc = "loop" /\ should_drain(elapsed, buffer_interval, buffer) /\ WorkerMoves) =>
            (wpc' = "draining" /\ UNCHANGED <<buffer, queue, nrecv, storage, applied>>)
    /\ (wpc = "draining" /\ (WorkerMoves \/ storage' # storage)) => C16_FlushStep
    /\ (wpc = "loop" /\ ~should_drain(elapsed, buffer_interval, buffer) /\ WorkerMoves) =>
            (C16_ReceiveStep /\ storage' = storage)
    /\ wpc = "loop" => storage' = storage

\* C16 (as claimed): the worker cycle rule.  In each cycle of its loop the
\* worker flushes if and only if the time since the last flush has reached
\* the interval and the buffer is not empty; a flush applies the whole
\* buffer in arrival order, leaves it empty and resets the last-flush time;
\* every other cycle is exactly one non-blocking receive (append at the
\* tail, pause on empty, leave the loop on closed) and changes no storage.
C16_WorkerCycle == [][C16_Step]_vars

\* C17: with the flush interval zero, the value get_buffer_interval gives,
\* the worker never receives while its buffer is non-empty: a non-empty
\* buffer makes the flush due at once, and the buffer holds at most one
\* command in every reachable state.
C17_BufferAtMostOne ==
    buffer_interval = get_buffer_interval =>
        /\ Len(buffer) <= 1
        /\ (wpc = "loop" /\ buffer # <<>>) => should_drain(elapsed, buffer_interval, buffer)

\* C17 witness: one command is buffered and the flush is due while the queue
\* is full of commands the worker has not received.
C17_Witness ==
    /\ buffer_interval = get_buffer_interval
    /\ wpc = "loop"
    /\ Len(buffer) = 1
    /\ Len(queue) = QueueCap

\* The moves of the worker task: it starts (unspawned, connecting) and then
\* goes Idle-Polling ("loop") -> Draining -> Idle-Polling, or Idle-Polling
\* -> Terminating ("final_drain" when commands are buffered, then "stopped").
C18_Moves ==
    {<<"unspawned", "connecting">>, <<"connecting", "loop">>,
     <<"loop", "draining">>, <<"draining", "loop">>,
     <<"loop", "final_drain">>, <<"loop", "stopped">>, <<"final_drain", "stopped">>}

C18_Step ==
    /\ wpc' # wpc => <<wpc, wpc'>> \in C18_Moves
    /\ (wpc = "loop" /\ wpc' = "final_drain") => buffer # <<>>
    /\ (wpc = "loop" /\ wpc' = "stopped") => buffer = <<>>
    /\ wpc \in {"final_drain", "stopped"} =>
            (nrecv' = nrecv /\ buffer' \in {buffer, Tail(buffer)})
    /\ (wpc = "final_drain" /\ (wpc' # wpc \/ buffer' # buffer \/ storage' # storage)) =>
            /\ applied' = Append(applied, Head(buffer))
            /\ storage' = apply_cmd(storage, Head(buffer))
            /\ buffer' = Tail(buffer)
            /\ wpc' = IF Tail(buffer) = <<>> THEN "stopped" ELSE "final_drain"
    /\ wpc = "stopped" => UNCHANGED <<wpc, buffer, storage, applied>>

\* C18 (as claimed): the worker moves only along Idle-Polling -> Draining ->
\* Idle-Polling and Idle-Polling -> Terminating, and Terminating is
\* terminal: once the worker has seen the queue closed it receives nothing
\* more, flushes at most once more (exactly once when the buffer is
\* non-empty), ends with an empty buffer, and the storage never changes
\* after it has stopped.
C18_WorkerStateMachine ==
    /\ [](wpc = "stopped" => buffer = <<>>)
    /\ [](wpc = "final_drain" => buffer # <<>>)
    /\ [][C18_Step]_vars

\* A read returns in this step.
ReadReturns == lastRead' # NoRead

\* The state of the queue, the worker, the store and the producers.
C19_Frame ==
    <<queue, buffer, wpc, worker_error, elapsed, storage, pc, pending, sendResult, issued,
      admitted, applied, nrecv>>

\* C19: the reads bypass the queue.  Every read operation can be called by
\* a caller that holds the handle in every state, also when the queue is at
\* capacity and an enqueue is suspended; a read returns what the store
\* holds and leaves queue, buffer, worker state and storage unchanged; and
\* only an enqueue, on a full queue, is ever suspended.
C19_ReadsBypassQueue ==
    /\ []((connectResult = "Ok" /\ \E p \in Procs : pc[p] = "idle") =>
            \A op \in ReadOps : \A key \in ReadKeys(op) : ENABLED Read(op, key))
    /\ [][ReadReturns =>
            (UNCHANGED C19_Frame
             /\ lastRead'.result = ReadResult(lastRead'.op, lastRead'.key))]_vars
    /\ [][\A p \in Procs : (pc'[p] = "suspended" /\ pc[p] # "suspended") =>
            (SendStarts(p) /\ Len(queue) = QueueCap)]_vars

\* C19 witness: a read has just returned while the queue is at capacity and
\* an enqueue is suspended on it.
C19_Witness ==
    /\ lastRead # NoRead
    /\ Len(queue) = QueueCap
    /\ \E p \in Procs : pc[p] = "suspended"

\* The last command producer p has enqueued.
LastCmdOf(p) ==
    CHOOSE c \in {admitted[i] : i \in 1..Len(admitted)} : c.src = p /\ c.n = issued[p]

\* Command c has been applied, and no command for its key after it.
AppliedLast(c) ==
    \E i \in 1..Len(applied) : applied[i] = c /\ LastAppliedForKey(i)

\* The load() that has just returned does not show the payload of c.
StaleFor(c) ==
    /\ lastRead.op = "load"
    /\ {r \in lastRead.result : r.key = c.key} # {RowOf(c)}

\* C20: read-your-writes is not guaranteed, and the staleness ends at the
\* flush.  Whenever a caller whose enqueue for a key has returned Ok then
\* reads the key and does not get its payload, its command is not applied
\* yet (or a later command for the key is); and the step that applies a
\* command makes the read of its key give its payload.
C20_StaleUntilFlush ==
    /\ [](\A p \in Procs :
            (pc[p] = "idle" /\ sendResult[p] = "Ok" /\ StaleFor(LastCmdOf(p))) =>
                ~AppliedLast(LastCmdOf(p)))
    /\ [][\A c \in {buffer[i] : i \in 1..Len(buffer)} :
            applied' = Append(applied, c) => (ReadOfKey(c))' = {RowOf(c)}]_vars

\* C20 witness: the only caller left has had add(k, v) return Ok after an
\* earlier value of k was applied; its command is still queued or buffered,
\* and its load() has just returned the earlier value of k.
C20_Witness ==
    \E p \in Procs :
        /\ \A q \in Procs \ {p} : pc[q] = "dropped"
        /\ pc[p] = "idle"
        /\ sendResult[p] = "Ok"
        /\ Len(applied) = 1
        /\ Len(admitted) = 2
        /\ admitted[2].src = p
        /\ admitted[2].n = issued[p]
        /\ admitted[2].key = applied[1].key
        /\ admitted[2].value # applied[1].value
        /\ lastRead.op = "load"
        /\ lastRead.result = {RowOf(applied[1])}

====
